---- MODULE Spec2Model ----
(***************************************************************************)
(* A model of hub/core/compression.py: the array codecs (compress_array,   *)
(* decompress_array, compress_bytes, decompress_bytes), the multi-sample   *)
(* tiler (compress_multiple, decompress_multiple), the video range decoder *)
(* (_decompress_video) and the JPEG marker scans.                          *)
(*                                                                         *)
(* Conventions.                                                            *)
(*  - A Python bytes object is a sequence of integers.  0..255 are literal *)
(*    bytes.  Larger integers are symbols of an encoded stream (the body   *)
(*    of an LZ4 block or frame, the signature and fields of an image       *)
(*    file): an encoder is modelled by the container it writes, never as   *)
(*    the identity.  A negative integer -k is a run of k bytes whose       *)
(*    content is not tracked (it only contributes to the length).          *)
(*  - An ndarray is a record [shape, dtype, data], data in row-major order.*)
(*  - The outcome of a call is a record [exc, val, calls]: exc is "" for a *)
(*    normal return (val is the value) and otherwise names the exception   *)
(*    that escapes; calls lists the external codec routines the call went  *)
(*    through.                                                             *)
(*  - An optional argument is <<>> (None) or <<x>>.  The absent            *)
(*    compression identifier is the string NoneC.                          *)
(***************************************************************************)
EXTENDS Integers, Sequences, FiniteSets, TLC

VARIABLES
    pc,                    \* position of the entry point being executed
    array,                 \* compress_array: the array argument
    arrays,                \* compress_multiple: the list of samples
    payload,               \* the logical payload of the byte-codec run
    compression,           \* the compression identifier argument
    pil_rejects,           \* environment: the imaging library rejects the save
    buffer,                \* outcome of the compress step (the blob)
    legacy_blob,           \* a blob written by an earlier release
    legacy,                \* outcome of the legacy-container decode
    ret,                   \* outcome of the decompress step
    _LZ4_INSTALLED,        \* import lz4.frame succeeded
    _MINIAUDIO_INSTALLED,  \* import miniaudio succeeded
    _PYAV_INSTALLED,       \* import av succeeded
    stream,                \* the video stream of the source file
    seek_denied,           \* the container rejects seek with PermissionError
    start, stop, step,     \* _decompress_video: the frame window (optional)
    reverse,               \* _decompress_video: the reverse flag
    nframes,               \* _decompress_video: requested frame count
    video,                 \* _decompress_video: the output array, by slot
    seek_target,           \* _decompress_video: timestamp looked for
    step_time,             \* _decompress_video: timestamp advance per slot
    step_seeking,          \* _decompress_video: seek after every kept frame
    seekable,              \* _decompress_video: the initial seek succeeded
    i,                     \* _decompress_video: next output slot
    opens,                 \* number of containers opened by the call
    seeks,                 \* targets of the seek calls issued by the call
    pos,                   \* container: first frame of the next packet
    packet,                \* first frame of the packet being decoded
    fidx,                  \* frames of the packet already handled
    vret,                  \* outcome of _decompress_video
    call,                  \* 1: first call, 2: the call repeated seekable
    first_ret,             \* outcome of the first call
    content,               \* JPEG scans: the bytes of the source
    shape_buffer,          \* outcome of _read_jpeg_shape_from_buffer
    shape_file,            \* outcome of _read_jpeg_shape_from_file
    verify_buffer,         \* outcome of _verify_jpeg_buffer
    verify_file,           \* outcome of _verify_jpeg_file
    byteorder,             \* sys.byteorder
    png_ret,               \* outcome of _read_png_shape_and_dtype
    source,                \* entry points: the kind of source passed
    path_exists,           \* entry points: the path names a readable file
    lib_accepts,           \* entry points: the decoding library accepts
                           \*   the source
    verified,              \* outcome of verify_compressed_file
    meta,                  \* outcome of read_meta_from_compressed_file
    events                 \* resources acquired and released, in order

argVars == <<array, arrays, payload, compression>>

envVars == <<pil_rejects, _LZ4_INSTALLED, _MINIAUDIO_INSTALLED,
             _PYAV_INSTALLED>>

codecVars == <<argVars, envVars, buffer, legacy_blob, legacy, ret>>

windowVars == <<stream, start, stop, step, reverse>>

localVars == <<nframes, video, seek_target, step_time, step_seeking,
               seekable, i>>

containerVars == <<opens, seeks, pos, packet, fidx>>

videoVars == <<windowVars, seek_denied, localVars, containerVars, vret,
               call, first_ret>>

jpegVars == <<content, shape_buffer, shape_file, verify_buffer, verify_file>>

entryVars == <<byteorder, png_ret, source, path_exists, lib_accepts, verified,
              meta, events>>

vars == <<pc, codecVars, videoVars, jpegVars, entryVars>>

----------------------------------------------------------------------------
(* Bounds of the model *)

MaxDim == 2
MaxNdim == 3
MaxSamples == 2
MaxTileDim == 2
MaxPayload == 2
MaxFrames == 6
MaxStep == 3
MaxSegments == 3
MaxCut == 3


----------------------------------------------------------------------------
(* Python values *)

NoneC == "None"
None == <<>>
Some(x) == <<x>>

Return(v, c) == [exc |-> "", val |-> v, calls |-> c]
Raise(e, c) == [exc |-> e, val |-> <<>>, calls |-> c]
NoOutcome == [exc |-> "not called", val |-> <<>>, calls |-> <<>>]

RECURSIVE Prod(_)
Prod(s) == IF s = <<>> THEN 1 ELSE Head(s) * Prod(Tail(s))

RECURSIVE ByteLen(_)
\* len(b) of a bytes object: a run -k counts k bytes
ByteLen(b) ==
    IF b = <<>> THEN 0
    ELSE (IF Head(b) < 0 THEN -Head(b) ELSE 1) + ByteLen(Tail(b))

\* b[:n] for a bytes object whose first n elements are single bytes
Prefix(b, n) == SubSeq(b, 1, IF Len(b) < n THEN Len(b) ELSE n)

\* b[n:]
Suffix(b, n) == SubSeq(b, n + 1, Len(b))

\* "0 in shape"
HasZero(shape) == \E k \in DOMAIN shape : shape[k] = 0

itemsize(dtype) == IF dtype = "|u1" THEN 1 ELSE 2

\* ndarray.tobytes(): row-major, "<u2" elements little-endian
tobytes(a) ==
    IF a.dtype = "|u1" THEN a.data
    ELSE [k \in 1..(2 * Len(a.data)) |->
            IF k % 2 = 1 THEN a.data[(k + 1) \div 2] % 256
            ELSE a.data[k \div 2] \div 256]

\* np.frombuffer(b, dtype) is defined when b is literal bytes, a whole
\* number of items
CanFrombuffer(b, dtype) ==
    /\ \A k \in DOMAIN b : b[k] \in 0..255
    /\ Len(b) % itemsize(dtype) = 0

frombuffer(b, dtype) ==
    IF dtype = "|u1" THEN b
    ELSE [k \in 1..(Len(b) \div 2) |-> b[2 * k - 1] + 256 * b[2 * k]]

zeros(shape, dtype) ==
    [shape |-> shape, dtype |-> dtype, data |-> [k \in 1..Prod(shape) |-> 0]]

----------------------------------------------------------------------------
(* hub.compression: the classification table.  The module is not among the *)
(* source files; it is modelled from section 4.1 of the specification,     *)
(* with one identifier standing for each type of the table.                *)

BYTE_COMPRESSION == "byte"
IMAGE_COMPRESSION == "image"
AUDIO_COMPRESSION == "audio"
VIDEO_COMPRESSION == "video"

\* hub.compressions
SUPPORTED_COMPRESSIONS == {NoneC, "lz4", "png", "apng", "mp3", "mp4"}

\* get_compression_type(c) raises for an identifier outside the table
Classified(c) == c \in SUPPORTED_COMPRESSIONS

get_compression_type(c) ==
    CASE c = NoneC -> NoneC
      [] c = "lz4" -> BYTE_COMPRESSION
      [] c \in {"png", "apng"} -> IMAGE_COMPRESSION
      [] c = "mp3" -> AUDIO_COMPRESSION
      [] c = "mp4" -> VIDEO_COMPRESSION
      [] OTHER -> "unsupported"

----------------------------------------------------------------------------
(* The external codecs, by the containers they read and write.             *)

\* A 32-bit little-endian size field
LE32(n) ==
    <<n % 256, (n \div 256) % 256, (n \div 65536) % 256,
      (n \div 16777216) % 256>>

UnLE32(h) == h[1] + 256 * h[2] + 65536 * h[3] + 16777216 * h[4]

\* numcodecs.lz4.compress: the current container, a 4-byte little-endian
\* size of the original followed by one LZ4 block.  The block of the empty
\* input is the single token 00, which gives the five zero bytes that
\* decompress_bytes tests for.
numcodecs_lz4_compress(b) ==
    LE32(ByteLen(b)) \o
        (IF b = <<>> THEN <<0>>
         ELSE [k \in DOMAIN b |-> IF b[k] < 0 THEN b[k] ELSE 256 + b[k]])

\* numcodecs.lz4.decompress: raises on anything that is not a size header
\* followed by a block of that size
numcodecs_lz4_decompress(blob) ==
    LET body == Suffix(blob, 4)
        data == [k \in DOMAIN body |->
                    IF body[k] < 0 THEN body[k] ELSE body[k] - 256]
    IN  IF /\ Len(blob) > 4
           /\ \A k \in 1..4 : blob[k] \in 0..255
           /\ \A k \in DOMAIN body : body[k] < 0 \/ body[k] \in 256..511
           /\ UnLE32(Prefix(blob, 4)) = ByteLen(data)
        THEN Return(data, <<"numcodecs.lz4.decompress">>)
        ELSE Raise("RuntimeError", <<"numcodecs.lz4.decompress">>)

\* b'\x04"M\x18', the magic number of the LZ4 frame format
LZ4_FRAME_MAGIC == <<4, 34, 77, 24>>

\* lz4.frame.compress: the legacy container, the magic number, a frame
\* descriptor, the blocks and an end mark
lz4_frame_compress(b) ==
    LZ4_FRAME_MAGIC \o <<768>> \o
        [k \in DOMAIN b |-> IF b[k] < 0 THEN b[k] ELSE 512 + b[k]] \o <<769>>

\* lz4.frame.decompress: raises on anything that is not a frame
lz4_frame_decompress(blob) ==
    LET body == SubSeq(blob, 6, Len(blob) - 1)
        data == [k \in DOMAIN body |->
                    IF body[k] < 0 THEN body[k] ELSE body[k] - 512]
    IN  IF /\ Len(blob) >= 6
           /\ Prefix(blob, 4) = LZ4_FRAME_MAGIC
           /\ blob[5] = 768
           /\ blob[Len(blob)] = 769
           /\ \A k \in DOMAIN body : body[k] < 0 \/ body[k] \in 512..767
        THEN Return(data, <<"lz4.frame.decompress">>)
        ELSE Raise("RuntimeError", <<"lz4.frame.decompress">>)

\* The signature an image file of a format starts with
ImageSignature(fmt) == IF fmt = "apng" THEN 1002 ELSE 1001

\* Image.save: an image file holds its signature, the item size, the
\* shape and the pixels; the stored pixels are exactly those of the array
\* (the formats of the model are lossless)
ImageFile(fmt, a) ==
    <<ImageSignature(fmt), 1010 + itemsize(a.dtype), 1020 + Len(a.shape)>>
        \o [k \in DOMAIN a.shape |-> 1100 + a.shape[k]]
        \o [k \in DOMAIN a.data |-> 2000 + a.data[k]]

\* Image.open identifies a file by its signature; raw bytes and the empty
\* buffer are not identified (UnidentifiedImageError)
IsImageFile(b) ==
    /\ Len(b) >= 3
    /\ b[1] \in {1001, 1002}
    /\ b[2] \in {1011, 1012}
    /\ b[3] - 1020 \in 0..(Len(b) - 3)
    /\ LET nd == b[3] - 1020
           shape == [k \in 1..nd |-> b[3 + k] - 1100]
       IN  /\ \A k \in 1..nd : shape[k] >= 0
           /\ Len(b) = 3 + nd + Prod(shape)
           /\ \A k \in (4 + nd)..Len(b) : b[k] >= 2000

\* np.array(Image.open(b))
ImageArray(b) ==
    LET nd == b[3] - 1020
    IN  [shape |-> [k \in 1..nd |-> b[3 + k] - 1100],
         dtype |-> IF b[2] = 1011 THEN "|u1" ELSE "<u2",
         data |-> [k \in 1..(Len(b) - 3 - nd) |-> b[3 + nd + k] - 2000]]

----------------------------------------------------------------------------
(* compression.py: the byte codec and the array codec *)

\* to_image: a (X, Y, 1) array with X # 1 is squeezed to (X, Y)
to_image(a) ==
    IF Len(a.shape) = 3 /\ a.shape[1] # 1 /\ a.shape[3] = 1
    THEN [a EXCEPT !.shape = SubSeq(a.shape, 1, 2)]
    ELSE a

\* _compress_apng: a 3-D array is a stack of frames along its last axis,
\* a 4-D array with at most 4 channels along its first
_compress_apng(a) ==
    IF Len(a.shape) = 3 \/ (Len(a.shape) = 4 /\ a.shape[4] <= 4)
    THEN Return(ImageFile("apng", a), <<"PIL.save">>)
    ELSE Raise("SampleCompressionError", <<>>)

\* _decompress_apng: the exception of Image.open is not caught
_decompress_apng(b) ==
    IF ~IsImageFile(b) THEN Raise("UnidentifiedImageError", <<"PIL.open">>)
    ELSE IF b[1] = 1002 THEN Return(ImageArray(b), <<"PIL.open">>)
    ELSE LET frame0 == ImageArray(b)
         IN  Return([frame0 EXCEPT
                        !.shape = IF Len(frame0.shape) = 2
                                  THEN frame0.shape \o <<1>>
                                  ELSE <<1>> \o frame0.shape],
                    <<"PIL.open">>)

compress_bytes(b, c) ==
    IF b = <<>> THEN Return(<<>>, <<>>)
    ELSE IF c = "lz4"
    THEN Return(numcodecs_lz4_compress(b), <<"numcodecs.lz4.compress">>)
    ELSE Raise("SampleCompressionError", <<>>)

decompress_bytes(b, c) ==
    IF b = <<>> THEN Return(<<>>, <<>>)
    ELSE IF c = "lz4"
    THEN IF b = <<0, 0, 0, 0, 0>> THEN Return(<<>>, <<>>)
         ELSE IF Prefix(b, 4) = LZ4_FRAME_MAGIC
         THEN IF ~_LZ4_INSTALLED THEN Raise("ModuleNotFoundError", <<>>)
              ELSE lz4_frame_decompress(b)
         ELSE numcodecs_lz4_decompress(b)
    ELSE Raise("SampleDecompressionError", <<>>)

\* _decompress_audio on a buffer: no operation of the model writes an
\* audio file, so the decoder, when it is reached, rejects the buffer
_decompress_audio(file, c) ==
    IF ~_MINIAUDIO_INSTALLED THEN Raise("ModuleNotFoundError", <<>>)
    ELSE Raise("miniaudio.DecodeError", <<"miniaudio.read_f32">>)

\* _open_video on a buffer that is not a video container (no operation of
\* the array codec writes one)
_open_video(file) ==
    IF ~_PYAV_INSTALLED THEN Raise("ModuleNotFoundError", <<>>)
    ELSE Raise("av.error.InvalidDataError", <<"av.open">>)

compress_array(a, c) ==
    IF HasZero(a.shape) THEN Return(<<>>, <<>>)
    ELSE IF c \notin SUPPORTED_COMPRESSIONS
    THEN Raise("UnsupportedCompressionError", <<>>)
    ELSE IF c = NoneC THEN Return(tobytes(a), <<>>)
    ELSE IF get_compression_type(c) = BYTE_COMPRESSION
    THEN compress_bytes(tobytes(a), c)
    ELSE IF get_compression_type(c) = AUDIO_COMPRESSION
    THEN Raise("NotImplementedError", <<>>)
    ELSE IF get_compression_type(c) = VIDEO_COMPRESSION
    THEN Raise("NotImplementedError", <<>>)
    ELSE IF c = "apng" THEN _compress_apng(a)
    ELSE IF pil_rejects THEN Raise("SampleCompressionError", <<"PIL.save">>)
    ELSE Return(ImageFile(c, to_image(a)), <<"PIL.save">>)

\* decompress_array(buffer, shape, dtype, compression); shape and dtype are
\* optional.  The frame window arguments only reach _decompress_video.
decompress_array(b, shape, dtype, c) ==
    IF ~Classified(c) THEN Raise("UnsupportedCompressionError", <<>>)
    ELSE IF get_compression_type(c) = BYTE_COMPRESSION
    THEN IF dtype = None \/ shape = None THEN Raise("ValueError", <<>>)
         ELSE LET d == decompress_bytes(b, c)
              IN  IF /\ d.exc = ""
                     /\ CanFrombuffer(d.val, dtype[1])
                     /\ Len(d.val) = Prod(shape[1]) * itemsize(dtype[1])
                  THEN Return([shape |-> shape[1], dtype |-> dtype[1],
                               data |-> frombuffer(d.val, dtype[1])], d.calls)
                  ELSE Raise("SampleDecompressionError", d.calls)
    ELSE IF get_compression_type(c) = AUDIO_COMPRESSION
    THEN _decompress_audio(b, c)
    ELSE IF get_compression_type(c) = VIDEO_COMPRESSION
    THEN _open_video(b)
    ELSE IF c = "apng" THEN _decompress_apng(b)
    ELSE IF shape # None /\ HasZero(shape[1])
    THEN Return(zeros(shape[1], IF dtype = None THEN "<f8" ELSE dtype[1]),
                <<>>)
    ELSE IF ~IsImageFile(b)
    THEN Raise("SampleDecompressionError", <<"PIL.open">>)
    ELSE IF shape # None /\ Prod(shape[1]) # Prod(ImageArray(b).shape)
    THEN Raise("SampleDecompressionError", <<"PIL.open">>)
    ELSE Return(IF shape = None THEN ImageArray(b)
                ELSE [ImageArray(b) EXCEPT !.shape = shape[1]],
                <<"PIL.open">>)

----------------------------------------------------------------------------
(* The inputs of the codec runs *)

DTypes == {"|u1", "<u2"}

Shapes == UNION {[1..n -> 0..MaxDim] : n \in 1..MaxNdim}

\* The k-th element of the test pattern: never zero, so that it differs
\* from padding, and different from its neighbours
Pattern(dtype, k) ==
    IF dtype = "|u1" THEN 1 + (k % 5) ELSE 258 + 256 * (k % 3) + (k % 5)

MkArray(shape, dtype, seed) ==
    [shape |-> shape, dtype |-> dtype,
     data |-> [k \in 1..Prod(shape) |-> Pattern(dtype, k + seed)]]

Arrays == {MkArray(s, d, seed) : s \in Shapes, d \in DTypes, seed \in 0..1}

\* The supported identifiers and one that is not in the table
Identifiers == SUPPORTED_COMPRESSIONS \cup {"bogus"}

\* Blobs a caller may hold from elsewhere
StoredBlobs == {<<>>, <<7>>}

\* The variables of the video decoder while another component runs
VideoIdle ==
    /\ stream = <<>>
    /\ seek_denied = FALSE
    /\ start = None /\ stop = None /\ step = None
    /\ reverse = FALSE
    /\ nframes = 0
    /\ video = <<>>
    /\ seek_target = 0
    /\ step_time = 0
    /\ step_seeking = FALSE
    /\ seekable = TRUE
    /\ i = 0
    /\ opens = 0
    /\ seeks = <<>>
    /\ pos = 0
    /\ packet = 0
    /\ fidx = 0
    /\ vret = NoOutcome
    /\ call = 1
    /\ first_ret = NoOutcome

\* The variables of the JPEG scans while another component runs
JpegIdle ==
    /\ content = <<>>
    /\ shape_buffer = NoOutcome
    /\ shape_file = NoOutcome
    /\ verify_buffer = NoOutcome
    /\ verify_file = NoOutcome

\* The variables of the header readers and entry points while another
\* component runs
EntryIdle ==
    /\ byteorder = "little"
    /\ png_ret = NoOutcome
    /\ source = "bytes"
    /\ path_exists = TRUE
    /\ lib_accepts = TRUE
    /\ verified = NoOutcome
    /\ meta = NoOutcome
    /\ events = <<>>

CodecIdle ==
    /\ array = MkArray(<<0>>, "|u1", 0)
    /\ arrays = <<>>
    /\ payload = <<>>
    /\ compression = NoneC
    /\ pil_rejects = FALSE
    /\ buffer = NoOutcome
    /\ legacy_blob = <<>>
    /\ legacy = NoOutcome
    /\ ret = NoOutcome
    /\ _LZ4_INSTALLED = TRUE
    /\ _MINIAUDIO_INSTALLED = TRUE
    /\ _PYAV_INSTALLED = TRUE

----------------------------------------------------------------------------
(* compress_array followed by decompress_array with the array's shape and  *)
(* dtype and the same identifier; when compress_array raised,              *)
(* decompress_array on a blob the caller holds from elsewhere.             *)

InitArray ==
    /\ VideoIdle
    /\ JpegIdle
    /\ EntryIdle
    /\ array \in Arrays
    /\ compression \in Identifiers
    /\ pil_rejects \in BOOLEAN
    /\ _MINIAUDIO_INSTALLED \in BOOLEAN
    /\ _PYAV_INSTALLED \in BOOLEAN
    /\ _LZ4_INSTALLED = TRUE
    /\ buffer = NoOutcome
    /\ pc = "compress_array"
    /\ arrays = <<>>
    /\ payload = <<>>
    /\ legacy_blob = <<>>
    /\ legacy = NoOutcome
    /\ ret = NoOutcome

CompressArray ==
    /\ pc = "compress_array"
    /\ buffer' = compress_array(array, compression)
    /\ pc' = IF buffer'.exc = "" THEN "decompress_array" ELSE "array_raised"
    /\ UNCHANGED <<videoVars, jpegVars, entryVars, argVars, envVars, legacy_blob, legacy, ret>>

DecompressArray ==
    /\ pc = "decompress_array"
    /\ ret' = decompress_array(buffer.val, Some(array.shape),
                               Some(array.dtype), compression)
    /\ pc' = "array_done"
    /\ UNCHANGED <<videoVars, jpegVars, entryVars, argVars, envVars, buffer, legacy_blob, legacy>>

DecompressStored ==
    /\ pc = "array_raised"
    /\ \E b \in StoredBlobs :
          ret' = decompress_array(b, Some(array.shape), Some(array.dtype),
                                  compression)
    /\ pc' = "array_done"
    /\ UNCHANGED <<videoVars, jpegVars, entryVars, argVars, envVars, buffer, legacy_blob, legacy>>

NextArray == CompressArray \/ DecompressArray \/ DecompressStored

SpecArray == InitArray /\ [][NextArray]_vars

----------------------------------------------------------------------------
(* Claims about compress_array and decompress_array (SpecArray) *)

\* C1: an array with a zero-sized dimension compresses, under every
\* supported identifier, to the empty blob, and decompress_array of that
\* blob with the array's shape and dtype returns the zero-filled array of
\* that shape without reaching any codec.
C1_EmptyShortCircuit ==
    (HasZero(array.shape) /\ compression \in SUPPORTED_COMPRESSIONS) =>
        /\ pc # "compress_array" =>
              buffer.exc = "" /\ buffer.val = <<>> /\ buffer.calls = <<>>
        /\ pc = "array_done" =>
              /\ ret.exc = ""
              /\ ret.calls = <<>>
              /\ ret.val = zeros(array.shape, array.dtype)

\* C2: for an array without a zero-sized dimension and a lossless
\* identifier that compress_array accepts for raw arrays (lz4, or the
\* absent identifier), decompress_array of the compressed blob with the
\* array's shape and dtype returns the array.
C2_LosslessRoundTrip ==
    (/\ ~HasZero(array.shape)
     /\ compression \in {"lz4", NoneC}
     /\ pc = "array_done") =>
        ret.exc = "" /\ ret.val = array

\* C3: for an identifier outside the supported table, compress_array
\* fails with UnsupportedCompressionError for every array and
\* decompress_array for every blob.
C3_UnsupportedRejected ==
    compression \notin SUPPORTED_COMPRESSIONS =>
        /\ pc # "compress_array" =>
              buffer.exc = "UnsupportedCompressionError"
        /\ pc = "array_done" => ret.exc = "UnsupportedCompressionError"

----------------------------------------------------------------------------
(* The byte codec on one logical payload: compress_bytes and              *)
(* decompress_bytes of the blob it returns, then decompress_bytes of a     *)
(* blob that an earlier release stored for the same payload, either the    *)
(* LZ4 frame container or the bare output of the block compressor.         *)

\* The payload length whose 4-byte little-endian size field is the magic
\* number of the frame format
MagicLen == UnLE32(LZ4_FRAME_MAGIC)

\* Short payloads byte by byte, and long ones as one byte and a run
Payloads ==
    UNION {[1..n -> {0, 9}] : n \in 0..MaxPayload}
        \cup {<<9, 1 - n>> : n \in {MagicLen - 1, MagicLen, MagicLen + 1}}

InitBytes ==
    /\ VideoIdle
    /\ JpegIdle
    /\ EntryIdle
    /\ payload \in Payloads
    /\ compression \in {"lz4", "png"}
    /\ _LZ4_INSTALLED \in BOOLEAN
    /\ pc = "compress_bytes"
    /\ array = MkArray(<<0>>, "|u1", 0)
    /\ arrays = <<>>
    /\ pil_rejects = FALSE
    /\ _MINIAUDIO_INSTALLED = TRUE
    /\ _PYAV_INSTALLED = TRUE
    /\ buffer = NoOutcome
    /\ legacy_blob = <<>>
    /\ legacy = NoOutcome
    /\ ret = NoOutcome

CompressBytes ==
    /\ pc = "compress_bytes"
    /\ buffer' = compress_bytes(payload, compression)
    /\ pc' = IF buffer'.exc = "" THEN "decompress_bytes" ELSE "read_legacy"
    /\ UNCHANGED <<videoVars, jpegVars, entryVars, argVars, envVars, legacy_blob, legacy, ret>>

DecompressBytes ==
    /\ pc = "decompress_bytes"
    /\ ret' = decompress_bytes(buffer.val, compression)
    /\ pc' = "read_legacy"
    /\ UNCHANGED <<videoVars, jpegVars, entryVars, argVars, envVars, buffer, legacy_blob, legacy>>

ReadLegacy ==
    /\ pc = "read_legacy"
    /\ legacy_blob' \in {lz4_frame_compress(payload),
                         numcodecs_lz4_compress(payload)}
    /\ pc' = "decompress_legacy"
    /\ UNCHANGED <<videoVars, jpegVars, entryVars, argVars, envVars, buffer, legacy, ret>>

DecompressLegacy ==
    /\ pc = "decompress_legacy"
    /\ legacy' = decompress_bytes(legacy_blob, compression)
    /\ pc' = "bytes_done"
    /\ UNCHANGED <<videoVars, jpegVars, entryVars, argVars, envVars, buffer, legacy_blob, ret>>

NextBytes ==
    CompressBytes \/ DecompressBytes \/ ReadLegacy \/ DecompressLegacy

SpecBytes == InitBytes /\ [][NextBytes]_vars

\* C4: with the byte identifier, decompress_bytes returns empty bytes for
\* the empty blob and for the five zero bytes without calling a
\* decompressor, sends every other blob that starts with the frame magic
\* number to the frame decompressor and every remaining blob to the block
\* decompressor, so that the current and the legacy container of one
\* payload decode to identical bytes.
C4_BothContainersDecode ==
    (compression = "lz4" /\ _LZ4_INSTALLED /\ pc = "bytes_done") =>
        /\ legacy.calls =
              IF legacy_blob \in {<<>>, <<0, 0, 0, 0, 0>>} THEN <<>>
              ELSE IF Prefix(legacy_blob, 4) = LZ4_FRAME_MAGIC
              THEN <<"lz4.frame.decompress">>
              ELSE <<"numcodecs.lz4.decompress">>
        /\ legacy_blob \in {<<>>, <<0, 0, 0, 0, 0>>} =>
              legacy.exc = "" /\ legacy.val = <<>>
        /\ ret.exc = "" /\ legacy.exc = ""
        /\ ret.val = legacy.val
        /\ ret.val = payload

----------------------------------------------------------------------------
(* compression.py: the multi-sample tiler *)

RECURSIVE SumWidths(_, _)
\* sum(s[1] for s in shapes[:n])
SumWidths(shapes, n) ==
    IF n = 0 THEN 0 ELSE SumWidths(shapes, n - 1) + shapes[n][2]

RECURSIVE MaxHeight(_, _)
\* max(s[0] for s in shapes[:n])
MaxHeight(shapes, n) ==
    IF n = 1 THEN shapes[1][1]
    ELSE LET m == MaxHeight(shapes, n - 1)
         IN  IF shapes[n][1] > m THEN shapes[n][1] ELSE m

\* shape[2:]
Channels(shape) == SubSeq(shape, 3, Len(shape))

\* _get_bounding_shape: ValueError when the shapes differ beyond the first
\* two axes; a shape with one axis has no s[1]
_get_bounding_shape(shapes) ==
    IF Len(shapes) = 0 THEN Return(<<0, 0, 0>>, <<>>)
    ELSE IF \E k \in DOMAIN shapes : Channels(shapes[k]) # Channels(shapes[1])
    THEN Raise("ValueError", <<>>)
    ELSE IF \E k \in DOMAIN shapes : Len(shapes[k]) < 2
    THEN Raise("IndexError", <<>>)
    ELSE Return(<<MaxHeight(shapes, Len(shapes)),
                  SumWidths(shapes, Len(shapes))>> \o Channels(shapes[1]),
                <<>>)

\* The canvas after "canvas[:h, next_x : next_x + w] = arr" for every
\* sample: element (r, c, t) of the canvas is element (r, c - next_x, t)
\* of the sample whose slot holds column c when r is below its height,
\* and zero otherwise
Canvas(samples, shape, dtype) ==
    LET shapes == [k \in DOMAIN samples |-> samples[k].shape]
        W == shape[2]
        C == Prod(Channels(shape))
        At(j) ==
            LET t == j % C
                c == (j \div C) % W
                r == j \div (C * W)
                k == CHOOSE k \in DOMAIN samples :
                        /\ SumWidths(shapes, k - 1) <= c
                        /\ c < SumWidths(shapes, k)
                s == samples[k]
            IN  IF r < s.shape[1]
                THEN s.data[(r * s.shape[2]
                             + (c - SumWidths(shapes, k - 1))) * C + t + 1]
                ELSE 0
    IN  [shape |-> shape, dtype |-> dtype,
         data |-> [j \in 1..Prod(shape) |-> At(j - 1)]]

RECURSIVE JoinBytes(_)
\* b"".join(arr.tobytes() for arr in arrays)
JoinBytes(samples) ==
    IF samples = <<>> THEN <<>>
    ELSE tobytes(Head(samples)) \o JoinBytes(Tail(samples))

compress_multiple(samples, c) ==
    IF Len(samples) = 0 THEN Return(<<>>, <<>>)
    ELSE IF \E k \in DOMAIN samples : samples[k].dtype # samples[1].dtype
    THEN Raise("SampleCompressionError", <<>>)
    ELSE IF ~Classified(c) THEN Raise("UnsupportedCompressionError", <<>>)
    ELSE IF get_compression_type(c) = BYTE_COMPRESSION
    THEN compress_bytes(JoinBytes(samples), c)
    ELSE IF get_compression_type(c) = AUDIO_COMPRESSION
    THEN Raise("NotImplementedError", <<>>)
    ELSE IF get_compression_type(c) = VIDEO_COMPRESSION
    THEN Raise("NotImplementedError", <<>>)
    ELSE IF c = "apng" THEN Raise("NotImplementedError", <<>>)
    ELSE LET bound ==
                _get_bounding_shape([k \in DOMAIN samples |-> samples[k].shape])
         IN  IF bound.exc # "" THEN bound
             ELSE compress_array(Canvas(samples, bound.val, samples[1].dtype), c)

\* canvas[:h, x : x + w]
Slice(canvas, h, x, w) ==
    LET H == canvas.shape[1]
        W == canvas.shape[2]
        C == Prod(Channels(canvas.shape))
        rows == IF h < H THEN h ELSE H
        hi == IF x + w < W THEN x + w ELSE W
        cols == IF hi > x THEN hi - x ELSE 0
    IN  [shape |-> <<rows, cols>> \o Channels(canvas.shape),
         dtype |-> canvas.dtype,
         data |-> [j \in 1..(rows * cols * C) |->
                     LET t == (j - 1) % C
                         c == ((j - 1) \div C) % cols
                         r == (j - 1) \div (C * cols)
                     IN  canvas.data[(r * W + x + c) * C + t + 1]]]

RECURSIVE Offsets(_, _)
\* The byte offset of the n-th sample in the joined byte stream
Offsets(shapes, n) ==
    IF n = 1 THEN 0 ELSE Offsets(shapes, n - 1) + Prod(shapes[n - 1])

decompress_multiple(b, shapes, dtype, c) ==
    IF b = <<>> THEN Return(<<>>, <<>>)
    ELSE IF c # NoneC /\ ~Classified(c)
    THEN Raise("UnsupportedCompressionError", <<>>)
    ELSE IF c # NoneC /\ get_compression_type(c) = "byte"
    THEN LET d == decompress_bytes(b, c)
             size == itemsize(dtype)
             from(n) == Offsets(shapes, n) * size
             piece(n) == SubSeq(d.val, from(n) + 1,
                                from(n) + Prod(shapes[n]) * size)
         IN  IF d.exc # "" THEN d
             ELSE IF \E n \in DOMAIN shapes :
                        from(n) + Prod(shapes[n]) * size > Len(d.val)
             THEN Raise("ValueError", d.calls)
             ELSE Return([n \in DOMAIN shapes |->
                            [shape |-> shapes[n], dtype |-> dtype,
                             data |-> frombuffer(piece(n), dtype)]],
                         d.calls)
    ELSE LET canvas == decompress_array(b, None, None, NoneC)
         IN  IF canvas.exc # "" THEN canvas
             ELSE IF Len(canvas.val.shape) < 2
             THEN Raise("IndexError", canvas.calls)
             ELSE Return([n \in DOMAIN shapes |->
                            Slice(canvas.val, shapes[n][1],
                                  SumWidths(shapes, n - 1), shapes[n][2])],
                         canvas.calls)

----------------------------------------------------------------------------
(* compress_multiple followed by decompress_multiple with the samples'     *)
(* shapes in pack order, their dtype and the same identifier.              *)

\* Sample shapes: two axes and at most one further axis
TileShapes ==
    {<<h, w>> \o t : h \in 0..MaxTileDim, w \in 0..MaxTileDim,
                     t \in {<<>>, <<1>>, <<2>>}}

\* The k-th sample carries the test pattern shifted by k
SampleLists(n) ==
    {[k \in 1..n |-> MkArray(shapes[k], dtypes[k], k)] :
        shapes \in [1..n -> TileShapes], dtypes \in [1..n -> DTypes]}

ShapesOf(samples) == [k \in DOMAIN samples |-> samples[k].shape]

InitTile ==
    /\ VideoIdle
    /\ JpegIdle
    /\ EntryIdle
    /\ \E n \in 0..MaxSamples : arrays \in SampleLists(n)
    /\ compression \in Identifiers
    /\ pil_rejects \in (IF compression = "png" THEN BOOLEAN ELSE {FALSE})
    /\ pc = "compress_multiple"
    /\ array = MkArray(<<0>>, "|u1", 0)
    /\ payload = <<>>
    /\ _LZ4_INSTALLED = TRUE
    /\ _MINIAUDIO_INSTALLED = TRUE
    /\ _PYAV_INSTALLED = TRUE
    /\ buffer = NoOutcome
    /\ legacy_blob = <<>>
    /\ legacy = NoOutcome
    /\ ret = NoOutcome

CompressMultiple ==
    /\ pc = "compress_multiple"
    /\ buffer' = compress_multiple(arrays, compression)
    /\ pc' = IF buffer'.exc = "" THEN "decompress_multiple" ELSE "tile_raised"
    /\ UNCHANGED <<videoVars, jpegVars, entryVars, argVars, envVars, legacy_blob, legacy, ret>>

DecompressMultiple ==
    /\ pc = "decompress_multiple"
    /\ ret' = decompress_multiple(buffer.val, ShapesOf(arrays),
                                  arrays[1].dtype, compression)
    /\ pc' = "tile_done"
    /\ UNCHANGED <<videoVars, jpegVars, entryVars, argVars, envVars, buffer, legacy_blob, legacy>>

NextTile == CompressMultiple \/ DecompressMultiple

SpecTile == InitTile /\ [][NextTile]_vars

\* The samples share dtype
SameDtype(samples) ==
    \A k \in DOMAIN samples : samples[k].dtype = samples[1].dtype

\* The samples share all dimensions beyond the first two
SameChannels(samples) ==
    \A k \in DOMAIN samples :
        Channels(samples[k].shape) = Channels(samples[1].shape)

\* C5: for a non-empty list of samples that share dtype and trailing
\* dimensions and an identifier that compress_multiple accepts,
\* decompress_multiple of the packed blob with the samples' shapes returns
\* the samples, one array per sample, each equal to its sample.
C5_TilerRoundTrip ==
    (/\ Len(arrays) > 0
     /\ SameDtype(arrays)
     /\ SameChannels(arrays)
     /\ buffer.exc = ""
     /\ pc = "tile_done") =>
        ret.exc = "" /\ ret.val = arrays

\* C6: compress_multiple fails with SampleCompressionError, and returns no
\* blob, whenever two samples differ in dtype or in a dimension beyond the
\* first two, for every identifier.
C6_MismatchRejected ==
    (/\ pc # "compress_multiple"
     /\ ~(SameDtype(arrays) /\ SameChannels(arrays))) =>
        buffer.exc = "SampleCompressionError"

----------------------------------------------------------------------------
(* compression.py: _decompress_video, against a container of the optional  *)
(* av library.                                                             *)
(*                                                                         *)
(* The source is a record: frames (the number of frames, which the stream  *)
(* reports), the frame rate fps_num/fps_den, the time base tb_num/tb_den,  *)
(* gop_size and fpp, the number of frames a packet decodes to.  Frame n    *)
(* has presentation timestamp _frame_to_stamp(n); a packet carries the     *)
(* timestamp of its first frame; key frames are gop_size frames apart and  *)
(* a seek positions the container at the packet of the last key frame      *)
(* whose timestamp is not after the target.  The quotients of              *)
(* _frame_to_stamp are taken exactly (the code takes them in floating      *)
(* point).  A frame is identified by its number; an output slot that was   *)
(* never written holds Blank.                                              *)

Blank == -1

CeilDiv(a, b) == -((-a) \div b)

\* _frame_to_stamp(nframe, stream)
_frame_to_stamp(nframe, st) ==
    (nframe * st.fps_den * st.tb_den) \div (st.fps_num * st.tb_num)

\* container.seek(target, stream=vstream): the new read position
SeekPos(target, st) ==
    LET keys == {n \in 0..(st.frames - 1) :
                    /\ n % st.gop_size = 0
                    /\ _frame_to_stamp(n, st) <= target}
        key == IF keys = {} THEN 0
               ELSE CHOOSE n \in keys : \A m \in keys : m <= n
    IN  (key \div st.fpp) * st.fpp

\* len(packet.decode()) for the packet that starts at frame n
FramesIn(n, st) ==
    IF n + st.fpp <= st.frames THEN st.fpp ELSE st.frames - n

\* "x if x is not None else d"
Default(x, d) == IF x = None THEN d ELSE x[1]

\* video[::-1]
Reversed(v) == [k \in 1..Len(v) |-> v[Len(v) + 1 - k]]

\* Lines 852-877: open the container, read the metadata, size the output
\* and compute the first target and the strategy
OpenVideo ==
    /\ pc = "open_video"
    /\ LET first == Default(start, 0)
           last == Default(stop, stream.frames)
           by == Default(step, 1)
           n == CeilDiv(last - first, by)
       IN  IF ~_PYAV_INSTALLED
           THEN /\ vret' = Raise("ModuleNotFoundError", <<>>)
                /\ pc' = "video_done"
                /\ UNCHANGED <<localVars, opens>>
           ELSE IF n < 0
           THEN /\ vret' = Raise("ValueError", <<>>)
                /\ pc' = "video_done"
                /\ opens' = 1
                /\ UNCHANGED localVars
           ELSE /\ nframes' = n
                /\ video' = [k \in 1..n |-> Blank]
                /\ seek_target' = _frame_to_stamp(first, stream)
                /\ step_time' = _frame_to_stamp(by, stream)
                /\ step_seeking' = (by > stream.gop_size)
                /\ opens' = 1
                /\ pc' = "seek"
                /\ UNCHANGED <<seekable, i, vret>>
    /\ UNCHANGED <<windowVars, seek_denied, seeks, pos, packet, fidx, call,
                   first_ret, codecVars, jpegVars, entryVars>>

\* Lines 879-889: the initial seek; on PermissionError the source is
\* opened again and read from its start
InitialSeek ==
    /\ pc = "seek"
    /\ seeks' = Append(seeks, seek_target)
    /\ IF seek_denied
       THEN /\ seekable' = FALSE
            /\ opens' = opens + 1
            /\ pos' = 0
       ELSE /\ seekable' = TRUE
            /\ pos' = SeekPos(seek_target, stream)
            /\ UNCHANGED opens
    /\ i' = 0
    /\ pc' = "demux"
    /\ UNCHANGED <<windowVars, seek_denied, nframes, video, seek_target,
                   step_time, step_seeking, packet, fidx, vret, call,
                   first_ret, codecVars, jpegVars, entryVars>>

\* Line 890: the next packet of the container
Demux ==
    /\ pc = "demux"
    /\ pos < stream.frames
    /\ packet' = pos
    /\ fidx' = 0
    /\ pos' = pos + stream.fpp
    /\ pc' = "decode"
    /\ UNCHANGED <<windowVars, seek_denied, localVars, opens, seeks, vret,
                   call, first_ret, codecVars, jpegVars, entryVars>>

\* Line 890: the container has no further packet
EndOfStream ==
    /\ pc = "demux"
    /\ pos >= stream.frames
    /\ pc' = "return"
    /\ UNCHANGED <<videoVars, codecVars, jpegVars, entryVars>>

\* A seek after every retained frame whatever the strategy
SeeksAfterFrame_Always == TRUE

\* Line 897: "if step_seeking and seekable"
SeeksAfterFrame == step_seeking /\ seekable

\* Lines 891-898: one frame of the packet
DecodeFrame ==
    /\ pc = "decode"
    /\ fidx < FramesIn(packet, stream)
    /\ fidx' = fidx + 1
    /\ LET pts == _frame_to_stamp(packet, stream)
       IN  IF pts # 0 /\ pts >= seek_target
           THEN IF i >= nframes
                THEN /\ vret' = Raise("IndexError", <<>>)
                     /\ pc' = "video_done"
                     /\ UNCHANGED <<video, i, seek_target, seeks, pos>>
                ELSE /\ video' = [video EXCEPT ![i + 1] = packet + fidx]
                     /\ i' = i + 1
                     /\ seek_target' = seek_target + step_time
                     /\ IF SeeksAfterFrame
                        THEN /\ seeks' = Append(seeks, seek_target')
                             /\ pos' = SeekPos(seek_target', stream)
                        ELSE UNCHANGED <<seeks, pos>>
                     /\ UNCHANGED <<pc, vret>>
           ELSE UNCHANGED <<video, i, seek_target, seeks, pos, pc, vret>>
    /\ UNCHANGED <<windowVars, seek_denied, nframes, step_time, step_seeking,
                   seekable, opens, packet, call, first_ret, codecVars,
                   jpegVars, entryVars>>

\* Lines 900-901: the packet is exhausted
PacketDone ==
    /\ pc = "decode"
    /\ fidx = FramesIn(packet, stream)
    /\ pc' = IF i = nframes THEN "return" ELSE "demux"
    /\ UNCHANGED <<videoVars, codecVars, jpegVars, entryVars>>

\* Lines 903-905
ReturnVideo ==
    /\ pc = "return"
    /\ vret' = Return(IF reverse THEN Reversed(video) ELSE video, <<>>)
    /\ pc' = "video_done"
    /\ UNCHANGED <<windowVars, seek_denied, localVars, containerVars, call,
                   first_ret, codecVars, jpegVars, entryVars>>

\* The caller repeats a call whose seek was rejected, with the same
\* arguments, on a source that can seek
CallAgain ==
    /\ pc = "video_done"
    /\ call = 1
    /\ seek_denied
    /\ first_ret' = vret
    /\ call' = 2
    /\ seek_denied' = FALSE
    /\ nframes' = 0
    /\ video' = <<>>
    /\ seek_target' = 0
    /\ step_time' = 0
    /\ step_seeking' = FALSE
    /\ seekable' = TRUE
    /\ i' = 0
    /\ opens' = 0
    /\ seeks' = <<>>
    /\ pos' = 0
    /\ packet' = 0
    /\ fidx' = 0
    /\ vret' = NoOutcome
    /\ pc' = "open_video"
    /\ UNCHANGED <<windowVars, codecVars, jpegVars, entryVars>>

\* The sources: whole and fractional ticks per frame
Streams ==
    {[frames |-> n, fps_num |-> f[1], fps_den |-> 1, tb_num |-> 1,
      tb_den |-> f[2], gop_size |-> g, fpp |-> p] :
        n \in {MaxFrames - 2, MaxFrames}, f \in {<<1, 1>>, <<2, 3>>},
        g \in 1..2, p \in 1..2}

InitVideo ==
    /\ CodecIdle
    /\ JpegIdle
    /\ EntryIdle
    /\ stream \in Streams
    /\ seek_denied \in BOOLEAN
    /\ start \in {None} \cup {Some(n) : n \in 0..MaxFrames}
    /\ stop \in {None} \cup {Some(n) : n \in 0..MaxFrames}
    /\ step \in {None} \cup {Some(n) : n \in 1..MaxStep}
    /\ reverse \in BOOLEAN
    /\ nframes = 0
    /\ video = <<>>
    /\ seek_target = 0
    /\ step_time = 0
    /\ step_seeking = FALSE
    /\ seekable = TRUE
    /\ i = 0
    /\ opens = 0
    /\ seeks = <<>>
    /\ pos = 0
    /\ packet = 0
    /\ fidx = 0
    /\ vret = NoOutcome
    /\ call = 1
    /\ first_ret = NoOutcome
    /\ pc = "open_video"

NextVideo ==
    \/ OpenVideo
    \/ InitialSeek
    \/ Demux
    \/ EndOfStream
    \/ DecodeFrame
    \/ PacketDone
    \/ ReturnVideo
    \/ CallAgain

SpecVideo == InitVideo /\ [][NextVideo]_vars

----------------------------------------------------------------------------
(* Claims about _decompress_video (SpecVideo) *)

\* The frame that slot k (counted from 1) of the result should hold
Expected(k, n) ==
    IF reverse THEN start[1] + (n - k) * step[1]
    ELSE start[1] + (k - 1) * step[1]

\* C7: for a source whose frame n has timestamp _frame_to_stamp(n) and
\* that holds at least stop frames, and a window 0 <= start < stop with
\* step >= 1, the call returns ceil((stop - start) / step) frames, slot k
\* holding frame start + k * step, in reversed order when reverse is set.
C7_WindowFrames ==
    (/\ pc = "video_done"
     /\ stream.fpp = 1
     /\ start # None /\ stop # None /\ step # None
     /\ start[1] < stop[1]
     /\ stop[1] <= stream.frames) =>
        /\ vret.exc = ""
        /\ Len(vret.val) = CeilDiv(stop[1] - start[1], step[1])
        /\ \A k \in 1..Len(vret.val) :
              vret.val[k] = Expected(k, Len(vret.val))

\* C8: when the initial seek is rejected, the source is opened a second
\* time and only once, no seek is issued in the rest of the call, and the
\* call returns what it returns when the initial seek succeeds.
C8_SeekFallback ==
    /\ ~seekable => opens = 2 /\ Len(seeks) = 1
    /\ (call = 2 /\ pc = "video_done") =>
          /\ vret.exc = first_ret.exc
          /\ vret.val = first_ret.val

----------------------------------------------------------------------------
(* The JPEG fast path.  Offsets are counted from 0 as in the code; a      *)
(* marker is the pair of its two bytes.  The buffer functions take slices *)
(* of the buffer; the file functions search a memory map of the file and  *)
(* read the fields through the handle, whose position the model carries.  *)

\* buf[lo:hi] for 0 <= lo: the slice stops at the end of the buffer
getslice(buf, lo, hi) ==
    SubSeq(buf, lo + 1, IF hi < Len(buf) THEN hi ELSE Len(buf))

\* int.from_bytes(s, "big")
RECURSIVE from_bytes(_)
from_bytes(s) ==
    IF s = <<>> THEN 0
    ELSE from_bytes(SubSeq(s, 1, Len(s) - 1)) * 256 + s[Len(s)]

_JPEG_SOFS ==
    << <<255, 192>>, <<255, 194>>, <<255, 193>>, <<255, 195>>,
       <<255, 197>>, <<255, 198>>, <<255, 199>>, <<255, 201>>,
       <<255, 202>>, <<255, 203>>, <<255, 205>>, <<255, 206>>,
       <<255, 207>>, <<255, 222>>,
       <<255, 204>>, <<255, 220>>, <<255, 221>>, <<255, 223>> >>
    \o [k \in 1..16 |-> <<255, 223 + k>>]
    \o << <<255, 219>>, <<255, 254>>, <<255, 218>> >>

\* A skip set that holds the application markers only
_JPEG_SKIP_MARKERS_AppOnly ==
    {_JPEG_SOFS[k] : k \in 19..34}

\* set(_JPEG_SOFS[14:])
_JPEG_SKIP_MARKERS ==
    {_JPEG_SOFS[k] : k \in 15..Len(_JPEG_SOFS)}

\* _JPEG_SOFS[-1]
StartOfScan == _JPEG_SOFS[Len(_JPEG_SOFS)]

\* _JPEG_SOFS_RE: the alternatives of the pattern
_JPEG_SOFS_RE == {_JPEG_SOFS[k] : k \in 1..Len(_JPEG_SOFS)}

\* _re_find_first(_JPEG_SOFS_RE, mv[offset:]) followed by
\* match.start(0) + offset: the offset of the first marker of _JPEG_SOFS at
\* or after offset, -1 when there is no match
_re_find_first(buf, offset) ==
    LET hits == {p \in offset..(Len(buf) - 2) :
                    getslice(buf, p, p + 2) \in _JPEG_SOFS_RE}
    IN  IF hits = {} THEN -1
        ELSE CHOOSE p \in hits : \A q \in hits : p <= q

\* A search for the end of image that always succeeds
HasEndOfImage_Unchecked(buf) == TRUE

\* buf.find(b"\xff\xd9") != -1
HasEndOfImage(buf) ==
    \E p \in 0..(Len(buf) - 2) : getslice(buf, p, p + 2) = <<255, 217>>

\* _STRUCT_HHB.unpack on 5 bytes
_STRUCT_HHB_unpack(s) ==
    <<from_bytes(SubSeq(s, 1, 2)), from_bytes(SubSeq(s, 3, 4)), s[5]>>

\* if shape[-1] in (1, None): shape = shape[:-1]
DropSingleComponent(shape) ==
    IF shape[3] = 1 THEN SubSeq(shape, 1, 2) ELSE shape

\* The bytes that may follow the frame segment for _verify_jpeg_*
DefinitionStarts ==
    {<<255, 196>>, <<255, 219>>, <<255, 221>>, <<255, 218>>}

\* f.read(n) with the handle at position p; the handle advances by the
\* number of bytes returned
f_read(file, p, n) == getslice(file, p, p + n)

\* A seek that takes every offset as absolute
f_seek_absolute(p, off, whence) == off

\* f.seek(off, whence): the new position (whence 0: absolute, 1: relative)
f_seek(p, off, whence) ==
    IF whence = 1 THEN p + off ELSE off

\* The loop of _read_jpeg_shape_from_buffer and _verify_jpeg_buffer: the
\* value of sof_idx when the loop is left
RECURSIVE ScanBuffer(_, _, _)
ScanBuffer(buf, offset, sof_idx) ==
    LET idx == _re_find_first(buf, offset)
        marker == getslice(buf, idx, idx + 2)
    IN  IF idx = -1 THEN sof_idx
        ELSE IF marker = StartOfScan THEN sof_idx
        ELSE ScanBuffer(buf,
                        idx + from_bytes(getslice(buf, idx + 2, idx + 4)) + 2,
                        IF marker \notin _JPEG_SKIP_MARKERS THEN idx
                        ELSE sof_idx)

\* The loop of _read_jpeg_shape_from_file and _verify_jpeg_file
RECURSIVE ScanFile(_, _, _)
ScanFile(file, offset, sof_idx) ==
    LET idx == _re_find_first(file, offset)
        marker == getslice(file, idx, idx + 2)
        p == f_seek(0, idx + 2, 0)
    IN  IF idx = -1 THEN sof_idx
        ELSE IF marker = StartOfScan THEN sof_idx
        ELSE ScanFile(file,
                      idx + from_bytes(f_read(file, p, 2)) + 2,
                      IF marker \notin _JPEG_SKIP_MARKERS THEN idx
                      ELSE sof_idx)

_read_jpeg_shape_from_buffer(buf) ==
    LET sof_idx == ScanBuffer(buf, 0, -1)
        field == getslice(buf, sof_idx + 5, sof_idx + 10)
    IN  IF sof_idx = -1 THEN Raise("Exception", <<>>)
        ELSE IF Len(field) # 5 THEN Raise("struct.error", <<>>)
        ELSE Return(DropSingleComponent(_STRUCT_HHB_unpack(field)), <<>>)

_read_jpeg_shape_from_file(file) ==
    LET sof_idx == ScanFile(file, 0, -1)
        p == f_seek(0, sof_idx + 5, 0)
        field == f_read(file, p, 5)
    IN  IF file = <<>> THEN Raise("ValueError", <<>>)
        ELSE IF sof_idx = -1 THEN Raise("Exception", <<>>)
        ELSE IF Len(field) # 5 THEN Raise("struct.error", <<>>)
        ELSE Return(DropSingleComponent(_STRUCT_HHB_unpack(field)), <<>>)

_verify_jpeg_buffer(buf) ==
    LET sof_idx == ScanBuffer(buf, 0, -1)
        length == from_bytes(getslice(buf, sof_idx + 2, sof_idx + 4))
        field == getslice(buf, sof_idx + 5, sof_idx + 10)
    IN  IF getslice(buf, 0, 2) # <<255, 216>>
        THEN Raise("AssertionError", <<>>)
        ELSE IF sof_idx = -1 THEN Raise("Exception", <<>>)
        ELSE IF getslice(buf, sof_idx + length + 2, sof_idx + length + 4)
                    \notin DefinitionStarts
        THEN Raise("AssertionError", <<>>)
        ELSE IF Len(field) # 5 THEN Raise("struct.error", <<>>)
        ELSE IF ~HasEndOfImage(buf) THEN Raise("AssertionError", <<>>)
        ELSE Return(DropSingleComponent(_STRUCT_HHB_unpack(field)), <<>>)

\* The handle is at position 0 when _verify_jpeg_file is entered
_verify_jpeg_file(file) ==
    LET soi == f_read(file, 0, 2)
        sof_idx == ScanFile(file, 0, -1)
        p1 == f_seek(0, sof_idx + 2, 0)
        lenbytes == f_read(file, p1, 2)
        length == from_bytes(lenbytes)
        p2 == f_seek(p1 + Len(lenbytes), length - 2, 1)
        definition_start == f_read(file, p2, 2)
        p3 == f_seek(p2 + Len(definition_start), sof_idx + 5, 0)
        field == f_read(file, p3, 5)
    IN  IF file = <<>> THEN Raise("ValueError", <<>>)
        ELSE IF soi # <<255, 216>> THEN Raise("AssertionError", <<>>)
        ELSE IF sof_idx = -1 THEN Raise("Exception", <<>>)
        ELSE IF p2 < 0 THEN Raise("OSError", <<>>)
        ELSE IF definition_start \notin DefinitionStarts
        THEN Raise("AssertionError", <<>>)
        ELSE IF Len(field) # 5 THEN Raise("struct.error", <<>>)
        ELSE IF ~HasEndOfImage(file) THEN Raise("AssertionError", <<>>)
        ELSE Return(DropSingleComponent(_STRUCT_HHB_unpack(field)), <<>>)

----------------------------------------------------------------------------
(* The JPEG scans as a state machine: the four functions are applied to   *)
(* the same content, one after the other.                                 *)

StartOfImage == <<255, 216>>

\* The segments the contents are made of
Segments ==
    { <<255, 224, 0, 4, 255, 192>>,              \* APP0 enclosing FF C0
      <<255, 219, 0, 2>>,                        \* DQT, empty
      <<255, 192, 0, 8, 8, 0, 2, 0, 3, 3>>,      \* SOF0: 2 x 3, 3 components
      <<255, 194, 1, 0, 8, 1, 0, 0, 5, 1>>,      \* SOF2: length past the end
      <<255, 193, 0, 0>>,                        \* SOF1: length 0
      <<255, 218>>,                              \* SOS
      <<255, 217>> }                             \* EOI

RECURSIVE Flatten(_)
Flatten(ss) ==
    IF ss = <<>> THEN <<>> ELSE Head(ss) \o Flatten(Tail(ss))

\* The content without its last c bytes
Truncated(b, c) ==
    SubSeq(b, 1, IF Len(b) < c THEN 0 ELSE Len(b) - c)

\* Contents: an optional SOI, up to MaxSegments segments, and up to MaxCut
\* bytes missing at the end
JpegContents ==
    { Truncated(pre \o Flatten(ss), c) :
        pre \in {<<>>, StartOfImage},
        ss \in UNION {[1..n -> Segments] : n \in 0..MaxSegments},
        c \in 0..MaxCut }

InitJpeg ==
    /\ pc = "read_jpeg_shape"
    /\ content \in JpegContents
    /\ shape_buffer = NoOutcome
    /\ shape_file = NoOutcome
    /\ verify_buffer = NoOutcome
    /\ verify_file = NoOutcome
    /\ CodecIdle
    /\ VideoIdle
    /\ EntryIdle

ReadJpegShapeBuffer ==
    /\ pc = "read_jpeg_shape"
    /\ shape_buffer' = _read_jpeg_shape_from_buffer(content)
    /\ pc' = "read_jpeg_shape_file"
    /\ UNCHANGED <<content, shape_file, verify_buffer, verify_file,
                   codecVars, videoVars,
                   entryVars>>

ReadJpegShapeFile ==
    /\ pc = "read_jpeg_shape_file"
    /\ shape_file' = _read_jpeg_shape_from_file(content)
    /\ pc' = "verify_jpeg"
    /\ UNCHANGED <<content, shape_buffer, verify_buffer, verify_file,
                   codecVars, videoVars,
                   entryVars>>

VerifyJpegBuffer ==
    /\ pc = "verify_jpeg"
    /\ verify_buffer' = _verify_jpeg_buffer(content)
    /\ pc' = "verify_jpeg_file"
    /\ UNCHANGED <<content, shape_buffer, shape_file, verify_file,
                   codecVars, videoVars,
                   entryVars>>

VerifyJpegFile ==
    /\ pc = "verify_jpeg_file"
    /\ verify_file' = _verify_jpeg_file(content)
    /\ pc' = "jpeg_done"
    /\ UNCHANGED <<content, shape_buffer, shape_file, verify_buffer,
                   codecVars, videoVars,
                   entryVars>>

NextJpeg ==
    \/ ReadJpegShapeBuffer
    \/ ReadJpegShapeFile
    \/ VerifyJpegBuffer
    \/ VerifyJpegFile

SpecJpeg == InitJpeg /\ [][NextJpeg]_vars

----------------------------------------------------------------------------
(* The scan as the specification words it *)

MarkerAt(b, p) ==
    IF p + 2 <= Len(b) THEN <<b[p + 1], b[p + 2]>> ELSE <<>>

IsMarker(b, p) ==
    /\ p + 2 <= Len(b)
    /\ b[p + 1] = 255
    /\ <<255, b[p + 2]>> \in _JPEG_SOFS_RE

\* The 16-bit length that follows the marker at p, as far as it is there
LengthAfter(b, p) ==
    IF p + 4 <= Len(b) THEN b[p + 3] * 256 + b[p + 4]
    ELSE IF p + 3 <= Len(b) THEN b[p + 3]
    ELSE 0

\* The offsets of the markers the scan reaches from offset o, in order,
\* the first start-of-scan marker being the last of them
RECURSIVE Reached(_, _)
Reached(b, o) ==
    IF \A p \in o..(Len(b) - 2) : ~IsMarker(b, p) THEN <<>>
    ELSE LET p == CHOOSE p \in o..(Len(b) - 2) :
                      /\ IsMarker(b, p)
                      /\ \A q \in o..(p - 1) : ~IsMarker(b, q)
         IN  IF MarkerAt(b, p) = <<255, 218>> THEN <<p>>
             ELSE <<p>> \o Reached(b, p + 2 + LengthAfter(b, p))

\* The outcome the scan has when ignorable is the set of ignorable
\* markers: <<"rejected">> or the shape
ScanOutcome(b, ignorable) ==
    LET r == Reached(b, 0)
        cands == {k \in 1..Len(r) :
                     /\ MarkerAt(b, r[k]) # <<255, 218>>
                     /\ MarkerAt(b, r[k]) \notin ignorable}
    IN  IF cands = {} THEN <<"rejected">>
        ELSE LET s == r[CHOOSE k \in cands : \A j \in cands : j <= k]
             IN  IF s + 10 > Len(b) THEN <<"rejected">>
                 ELSE LET h == b[s + 6] * 256 + b[s + 7]
                          w == b[s + 8] * 256 + b[s + 9]
                          c == b[s + 10]
                      IN  IF c = 1 THEN <<h, w>> ELSE <<h, w, c>>

\* What an outcome of the code amounts to
Observed(o) ==
    IF o.exc = "" THEN o.val ELSE <<"rejected">>

\* APPn, comment and the restart-interval group
ListedIgnorable ==
    {<<255, x>> : x \in 224..239}
        \cup {<<255, 254>>}
        \cup {<<255, 204>>, <<255, 220>>, <<255, 221>>, <<255, 223>>}

\* C9 as stated: the ignorable markers are APPn, comment and the
\* restart-interval markers; every other marker of the set but FF DA is a
\* start-of-frame candidate.
C9_ScanAsStated ==
    (pc = "jpeg_done") =>
        LET stated == ScanOutcome(content, ListedIgnorable)
        IN  /\ Observed(shape_buffer) = stated
            /\ Observed(shape_file) = stated

\* C9 (amended): the scan stops at the first FF DA it reaches, resumes
\* after the segment of every other marker it reaches using the 16-bit
\* length that follows the marker, and records the marker as candidate
\* unless it is ignorable, the ignorable markers being APPn, comment, the
\* restart-interval group FF CC, FF DC, FF DD, FF DF and the quantization
\* table marker FF DB.  The result is (height, width, components) from the
\* 5 bytes at offset +5 of the last candidate, components dropped when 1;
\* the metadata is rejected when there is no candidate or when fewer than
\* 5 bytes are there.
C9_ScanAmended ==
    (pc = "jpeg_done") =>
        LET amended ==
                ScanOutcome(content, ListedIgnorable \cup {<<255, 219>>})
        IN  /\ Observed(shape_buffer) = amended
            /\ Observed(shape_file) = amended

\* C9 witness: a shape was read from a frame segment that is followed,
\* before the scan stops, by a quantization table segment, and an
\* application segment was skipped with the marker bytes it encloses
C9_Witness ==
    /\ pc = "jpeg_done"
    /\ shape_buffer.exc = ""
    /\ shape_buffer.val = <<2, 3, 3>>
    /\ LET r == Reached(content, 0)
       IN  /\ \E j, k \in 1..Len(r) :
                 /\ j < k
                 /\ MarkerAt(content, r[j]) = <<255, 192>>
                 /\ MarkerAt(content, r[k]) = <<255, 219>>
           /\ \E j \in 1..Len(r) :
                 /\ MarkerAt(content, r[j]) = <<255, 224>>
                 /\ r[j] + 4 \notin {r[k] : k \in 1..Len(r)}

\* Two outcomes are the same: the same shape, or a rejection in both
SameOutcome(a, b) ==
    /\ (a.exc = "") = (b.exc = "")
    /\ a.exc = "" => a.val = b.val

\* C10: for every content the buffer function and the file function of
\* the introspection pair give the same outcome, and so do those of the
\* verification pair.
C10_BufferFileAgree ==
    (pc = "jpeg_done") =>
        /\ SameOutcome(shape_buffer, shape_file)
        /\ SameOutcome(verify_buffer, verify_file)

\* C10 witness: the four functions have run on a content that both
\* verifications accept with the shape both introspections read
C10_Witness ==
    /\ pc = "jpeg_done"
    /\ verify_buffer.exc = ""
    /\ verify_file.exc = ""
    /\ shape_buffer.exc = ""
    /\ shape_file.val = verify_file.val

----------------------------------------------------------------------------
(* The PNG fast path.  The source is read through a handle (a buffer is   *)
(* wrapped in BytesIO): seek to 16, read 8 bytes, read 2 bytes.           *)

\* A 4-byte big-endian field as struct's "i" reads it
SignedBE32(s) ==
    (IF s[1] >= 128 THEN s[1] - 256 ELSE s[1]) * 16777216
        + from_bytes(SubSeq(s, 2, 4))

\* _STRUCT_II.unpack on 8 bytes
_STRUCT_II_unpack(s) ==
    <<SignedBE32(SubSeq(s, 1, 4)), SignedBE32(SubSeq(s, 5, 8))>>

\* _NATIVE_INT32
_NATIVE_INT32 == IF byteorder = "little" THEN "<i4" ELSE ">i4"

\* A type string that follows the bit depth whatever the colour type
PngTypestr_ByDepth(bits, colors) ==
    IF bits = 1 THEN "|b1"
    ELSE IF bits = 16 THEN _NATIVE_INT32
    ELSE "|u1"

\* Lines 709-718: typstr
PngTypestr(bits, colors) ==
    IF colors = 0
    THEN IF bits = 1 THEN "|b1"
         ELSE IF bits = 16 THEN _NATIVE_INT32
         ELSE "|u1"
    ELSE "|u1"

\* Lines 709-728: nlayers, <<>> standing for None
PngLayers(bits, colors) ==
    IF colors = 0 THEN None
    ELSE IF colors = 2 THEN Some(3)
    ELSE IF colors = 3 THEN None
    ELSE IF colors = 4 THEN (IF bits = 8 THEN Some(2) ELSE Some(4))
    ELSE Some(4)

\* The result is the pair <<shape, typstr>>
_read_png_shape_and_dtype(file) ==
    LET p1 == f_seek(0, 16, 0)
        sizebytes == f_read(file, p1, 8)
        p2 == p1 + Len(sizebytes)
        header == f_read(file, p2, 2)
        wh == _STRUCT_II_unpack(sizebytes)
        size == <<wh[2], wh[1]>>
        bits == header[1]
        colors == header[2]
    IN  IF Len(sizebytes) # 8 THEN Raise("struct.error", <<>>)
        ELSE IF Len(header) # 2 THEN Raise("ValueError", <<>>)
        ELSE Return(<<size \o PngLayers(bits, colors),
                      PngTypestr(bits, colors)>>, <<>>)

\* Signature, length and type of the header chunk
PngPreamble ==
    <<137, 80, 78, 71, 13, 10, 26, 10, 0, 0, 0, 13, 73, 72, 68, 82>>

\* Width and height fields
PngDims ==
    {<<0, 0, 0, 2>>, <<0, 0, 0, 3>>, <<0, 0, 1, 3>>, <<128, 0, 0, 0>>,
     <<255, 255, 255, 255>>}

PngDepths == {1, 2, 4, 8, 16}

PngColours == {0, 2, 3, 4, 6}

\* Contents: the start of a PNG file up to the colour type, with up to
\* MaxCut bytes missing at the end
PngContents ==
    { Truncated(PngPreamble \o w \o h \o <<bits, colors>>, c) :
        w \in PngDims, h \in PngDims, bits \in PngDepths,
        colors \in PngColours, c \in 0..MaxCut }

InitPng ==
    /\ pc = "read_png"
    /\ content \in PngContents
    /\ byteorder \in {"little", "big"}
    /\ png_ret = NoOutcome
    /\ source = "bytes"
    /\ path_exists = TRUE
    /\ lib_accepts = TRUE
    /\ verified = NoOutcome
    /\ meta = NoOutcome
    /\ events = <<>>
    /\ shape_buffer = NoOutcome
    /\ shape_file = NoOutcome
    /\ verify_buffer = NoOutcome
    /\ verify_file = NoOutcome
    /\ CodecIdle
    /\ VideoIdle

ReadPng ==
    /\ pc = "read_png"
    /\ png_ret' = _read_png_shape_and_dtype(content)
    /\ pc' = "png_done"
    /\ UNCHANGED <<byteorder, source, path_exists, lib_accepts, verified,
                   meta, events, jpegVars, codecVars, videoVars>>

NextPng == ReadPng

SpecPng == InitPng /\ [][NextPng]_vars

\* The fields of the header as the specification names them
PngField(b, offset) ==
    LET top == IF b[offset + 1] >= 128 THEN b[offset + 1] - 256
               ELSE b[offset + 1]
    IN  ((top * 256 + b[offset + 2]) * 256 + b[offset + 3]) * 256
            + b[offset + 4]

PngChannels(depth, colour) ==
    CASE colour \in {0, 3} -> <<>>
      [] colour = 2 -> <<3>>
      [] colour = 4 -> IF depth = 8 THEN <<2>> ELSE <<4>>
      [] OTHER -> <<4>>

PngDepthType(depth) ==
    CASE depth = 1 -> "|b1"
      [] depth = 16 -> (IF byteorder = "little" THEN "<i4" ELSE ">i4")
      [] OTHER -> "|u1"

\* C11 as stated: the dtype follows the bit depth alone, for every colour
\* type; the channel count follows the colour type; the shape is (height,
\* width) or (height, width, channels), height read at offset 20 and width
\* at offset 16.
C11_PngAsStated ==
    (pc = "png_done" /\ Len(content) >= 26) =>
        /\ png_ret.exc = ""
        /\ png_ret.val[1] = <<PngField(content, 20), PngField(content, 16)>>
                               \o PngChannels(content[25], content[26])
        /\ png_ret.val[2] = PngDepthType(content[25])

\* C11 (amended): as stated, but the dtype follows the bit depth only for
\* colour type 0 and is 8-bit unsigned for every other colour type; the
\* two size fields are read as signed integers; a source shorter than 26
\* bytes is rejected.
C11_PngAmended ==
    (pc = "png_done") =>
        IF Len(content) >= 26
        THEN /\ png_ret.exc = ""
             /\ png_ret.val[1]
                   = <<PngField(content, 20), PngField(content, 16)>>
                        \o PngChannels(content[25], content[26])
             /\ png_ret.val[2]
                   = (IF content[26] = 0 THEN PngDepthType(content[25])
                      ELSE "|u1")
        ELSE png_ret.exc # ""

\* C11 witness: a 16-bit truecolour header was read as 8-bit unsigned with
\* 3 channels
C11_Witness ==
    /\ pc = "png_done"
    /\ Len(content) >= 26
    /\ content[25] = 16 /\ content[26] = 2
    /\ png_ret.exc = ""
    /\ png_ret.val = << <<3, 2, 3>>, "|u1" >>
    /\ SubSeq(content, 17, 24) = <<0, 0, 0, 2, 0, 0, 0, 3>>

----------------------------------------------------------------------------
(* The entry points verify_compressed_file and                            *)
(* read_meta_from_compressed_file.  The source is a path, a handle the    *)
(* caller opened, bytes or a memory view.  A JPEG source is given by its  *)
(* content; for the other formats the decoding library either accepts    *)
(* the source or raises.  Acquisitions and releases are logged in the     *)
(* calls field of the outcome.                                            *)

Acquire(r) == <<"acquire", r>>

Release(r) == <<"release", r>>

\* The outcome o with the log c
Logged(o, c) == [o EXCEPT !.calls = c]

\* mmap.mmap / memoryview and the finally clause of the JPEG file scans;
\* mmap raises on an empty file before anything is acquired
JpegFileEvents(file) ==
    IF file = <<>> THEN <<>>
    ELSE <<Acquire("mmap"), Acquire("memoryview"),
           Release("memoryview"), Release("mmap")>>

\* "return <shape>, typestr"
WithTypestr(o, typestr) ==
    IF o.exc = "" THEN Return(<<o.val, typestr>>, o.calls) ELSE o

\* Image.open and Image._conv_type_shape: Pillow opens the source
PillowShape ==
    IF lib_accepts THEN Return(<<<<2, 3>>, "|u1">>, <<>>)
    ELSE Raise("UnidentifiedImageError", <<>>)

\* _verify_png(buf)
_verify_png(kind) == PillowShape

\* _fast_decompress(buf)
_fast_decompress(kind) == PillowShape

\* _verify_jpeg(f), "|u1": a memory view has no startswith
_verify_jpeg(kind, file) ==
    LET o == IF kind = "handle"
             THEN Logged(_verify_jpeg_file(file), JpegFileEvents(file))
             ELSE IF kind = "memoryview" THEN Raise("AttributeError", <<>>)
             ELSE _verify_jpeg_buffer(file)
    IN  WithTypestr(o, "|u1")

\* _read_jpeg_shape(f)
_read_jpeg_shape(kind, file) ==
    IF kind = "handle"
    THEN Logged(_read_jpeg_shape_from_file(file), JpegFileEvents(file))
    ELSE _read_jpeg_shape_from_buffer(file)

\* _read_audio_shape(file, compression): the info functions of miniaudio
\* take bytes or, for a str, a path
_read_audio_shape(kind, c) ==
    IF ~_MINIAUDIO_INSTALLED THEN Raise("ModuleNotFoundError", <<>>)
    ELSE IF kind = "handle" THEN Raise("TypeError", <<>>)
    ELSE IF lib_accepts THEN Return(<<4, 2>>, <<>>)
    ELSE Raise("miniaudio.DecodeError", <<>>)

\* _read_video_shape(file): _open_video opens a container, which is not
\* closed; av.open takes a path or wraps the bytes in BytesIO
_read_video_shape(kind) ==
    IF ~_PYAV_INSTALLED THEN Raise("ModuleNotFoundError", <<>>)
    ELSE IF kind = "handle" THEN Raise("TypeError", <<>>)
    ELSE IF lib_accepts
    THEN Return(<<4, 2, 2, 3>>, <<Acquire("container")>>)
    ELSE Raise("av.error.InvalidDataError", <<>>)

\* The file of a path is opened before the try statement and closed in
\* its finally clause
OpenedFrom(kind, o) ==
    IF kind = "path"
    THEN Logged(o, <<Acquire("file")>> \o o.calls \o <<Release("file")>>)
    ELSE o

\* What is left of "except Exception: raise CorruptedSampleError"
Normalized(o) ==
    IF o.exc = "" THEN o ELSE Raise("CorruptedSampleError", o.calls)

verify_compressed_file(kind, file, c) ==
    LET f == IF kind = "path" THEN "handle" ELSE kind
        body ==
            IF c = "png" THEN _verify_png(f)
            ELSE IF c = "jpeg" THEN _verify_jpeg(f, file)
            ELSE IF ~Classified(c)
            THEN Raise("UnsupportedCompressionError", <<>>)
            ELSE IF get_compression_type(c) = AUDIO_COMPRESSION
            THEN WithTypestr(_read_audio_shape(f, c), "<f4")
            ELSE IF c \in {"mp4", "mkv", "avi"}
            THEN IF f \in {"bytes", "memoryview"}
                 THEN WithTypestr(_read_video_shape(f), "|u1")
                 ELSE Return(None, <<>>)
            ELSE _fast_decompress(f)
    IN  IF kind = "path" /\ ~path_exists
        THEN Raise("FileNotFoundError", <<>>)
        ELSE OpenedFrom(kind, Normalized(body))

read_meta_from_compressed_file(kind, file, c) ==
    LET f == IF kind = "path" THEN "handle" ELSE kind
        orig == IF kind = "path" THEN "str" ELSE kind
        body ==
            IF c = "jpeg"
            THEN Normalized(WithTypestr(_read_jpeg_shape(f, file), "|u1"))
            ELSE IF c = "png"
            THEN Normalized(_read_png_shape_and_dtype(file))
            ELSE IF ~Classified(c)
            THEN Raise("UnsupportedCompressionError", <<>>)
            ELSE IF get_compression_type(c) = AUDIO_COMPRESSION
            THEN Normalized(WithTypestr(_read_audio_shape(orig, c), "<f4"))
            ELSE IF c \in {"mp4", "mkv", "avi"}
            THEN Normalized(WithTypestr(_read_video_shape(orig), "|u1"))
            ELSE PillowShape
    IN  IF kind = "path" /\ ~path_exists
        THEN Raise("FileNotFoundError", <<>>)
        ELSE OpenedFrom(kind, IF body.exc = ""
                              THEN Return(<<c>> \o body.val, body.calls)
                              ELSE body)

----------------------------------------------------------------------------
(* The entry points as a state machine: verify_compressed_file,           *)
(* read_meta_from_compressed_file and decompress_array are applied, one   *)
(* after the other, to the same source with the same identifier.         *)

Sources == {"path", "handle", "bytes", "memoryview"}

EntryIdentifiers == {"png", "jpeg", "mp3", "mp4", "bogus"}

\* A JPEG file, a JPEG file that ends after its frame header, a PNG
\* header and an empty file
EntrySamples(c) ==
    IF c = "jpeg"
    THEN {StartOfImage \o <<255, 192, 0, 8, 8, 0, 2, 0, 3, 3>>
              \o <<255, 218>> \o <<255, 217>>,
          StartOfImage \o <<255, 192, 0, 8, 8, 0, 2, 0, 3, 3>>,
          <<>>}
    ELSE IF c = "png"
    THEN {PngPreamble \o <<0, 0, 0, 2, 0, 0, 0, 3, 8, 2>>, <<>>}
    ELSE {<<>>}

InitEntry ==
    /\ pc = "verify_compressed_file"
    /\ source \in Sources
    /\ path_exists \in (IF source = "path" THEN BOOLEAN ELSE {TRUE})
    /\ compression \in EntryIdentifiers
    /\ content \in EntrySamples(compression)
    /\ lib_accepts \in (IF compression = "jpeg" THEN {TRUE} ELSE BOOLEAN)
    /\ _MINIAUDIO_INSTALLED \in BOOLEAN
    /\ _PYAV_INSTALLED \in BOOLEAN
    /\ _LZ4_INSTALLED = TRUE
    /\ pil_rejects = FALSE
    /\ verified = NoOutcome
    /\ meta = NoOutcome
    /\ events = <<>>
    /\ byteorder = "little"
    /\ png_ret = NoOutcome
    /\ shape_buffer = NoOutcome
    /\ shape_file = NoOutcome
    /\ verify_buffer = NoOutcome
    /\ verify_file = NoOutcome
    /\ array = MkArray(<<0>>, "|u1", 0)
    /\ arrays = <<>>
    /\ payload = <<>>
    /\ buffer = NoOutcome
    /\ legacy_blob = <<>>
    /\ legacy = NoOutcome
    /\ ret = NoOutcome
    /\ VideoIdle

VerifyCompressedFile ==
    /\ pc = "verify_compressed_file"
    /\ verified' = verify_compressed_file(source, content, compression)
    /\ events' = events \o verified'.calls
    /\ pc' = "read_meta"
    /\ UNCHANGED <<byteorder, png_ret, source, path_exists, lib_accepts,
                   meta, jpegVars, codecVars, videoVars>>

ReadMeta ==
    /\ pc = "read_meta"
    /\ meta' = read_meta_from_compressed_file(source, content, compression)
    /\ events' = events \o meta'.calls
    /\ pc' = "decompress"
    /\ UNCHANGED <<byteorder, png_ret, source, path_exists, lib_accepts,
                   verified, jpegVars, codecVars, videoVars>>

\* decompress_array on the source, for the identifiers that the
\* classifier of the model knows and a source it takes as a buffer
DecompressSource ==
    /\ pc = "decompress"
    /\ Classified(compression)
    /\ source \in {"bytes", "memoryview"}
    /\ ret' = decompress_array(content, None, None, compression)
    /\ pc' = "entry_done"
    /\ UNCHANGED <<entryVars, jpegVars, argVars, envVars, buffer,
                   legacy_blob, legacy, videoVars>>

NextEntry ==
    \/ VerifyCompressedFile
    \/ ReadMeta
    \/ DecompressSource

SpecEntry == InitEntry /\ [][NextEntry]_vars

----------------------------------------------------------------------------
(* Properties of the entry points *)

\* C12: verify_compressed_file either returns a shape/dtype result or
\* fails with CorruptedSampleError; no other exception escapes, opening
\* the source included, and it never returns without a result.
C12_TwoOutcomes ==
    (pc \in {"read_meta", "decompress", "entry_done"}) =>
        \/ verified.exc = "" /\ Len(verified.val) = 2
        \/ verified.exc = "CorruptedSampleError"

\* The entry point reaches the audio library
ReachesAudio(entry) ==
    /\ compression = "mp3"
    /\ source = "path" => path_exists

\* The entry point reaches the video library
ReachesVideo(entry) ==
    /\ compression = "mp4"
    /\ source = "path" => path_exists
    /\ entry = "verify" => source \in {"bytes", "memoryview"}

\* C13: when the audio (video) library is absent, decompress_array,
\* read_meta_from_compressed_file and verify_compressed_file, where they
\* reach an audio (video) decode or shape read, fail with the
\* missing-dependency error and with nothing else.
C13_MissingDependency ==
    /\ (/\ pc \in {"read_meta", "decompress", "entry_done"}
        /\ \/ ReachesAudio("verify") /\ ~_MINIAUDIO_INSTALLED
           \/ ReachesVideo("verify") /\ ~_PYAV_INSTALLED)
          => verified.exc = "ModuleNotFoundError"
    /\ (/\ pc \in {"decompress", "entry_done"}
        /\ \/ ReachesAudio("meta") /\ ~_MINIAUDIO_INSTALLED
           \/ ReachesVideo("meta") /\ ~_PYAV_INSTALLED)
          => meta.exc = "ModuleNotFoundError"
    /\ (/\ pc = "entry_done"
        /\ \/ compression = "mp3" /\ ~_MINIAUDIO_INSTALLED
           \/ compression = "mp4" /\ ~_PYAV_INSTALLED)
          => ret.exc = "ModuleNotFoundError"

\* The number of entries e of the log
Count(log, e) == Cardinality({k \in 1..Len(log) : log[k] = e})

\* C18: when an operation has ended, normally or with an exception, every
\* resource it acquired (the file opened from a path, the memory map and
\* its view, a video container) has been released.
C18_Released ==
    (pc \in {"read_meta", "decompress", "entry_done"}) =>
        \A r \in {"file", "mmap", "memoryview", "container"} :
            Count(events, Acquire(r)) = Count(events, Release(r))

----------------------------------------------------------------------------
(* Rejection by the JPEG fast path *)

\* The offset of the last start-of-frame candidate of the scan, -1 when
\* there is none
LastCandidate(b) ==
    LET r == Reached(b, 0)
        cands == {r[k] : k \in 1..Len(r)} \ 
                    {p \in 0..Len(b) :
                        MarkerAt(b, p) \in ListedIgnorable
                            \cup {<<255, 219>>, <<255, 218>>}}
    IN  IF cands = {} THEN -1
        ELSE CHOOSE p \in cands : \A q \in cands : q <= p

\* The segment of the last candidate is followed at once by DHT, DQT, DRI
\* or SOS
FollowedByDefinition(b) ==
    LET s == LastCandidate(b)
    IN  MarkerAt(b, s + 2 + LengthAfter(b, s))
            \in {<<255, 196>>, <<255, 219>>, <<255, 221>>, <<255, 218>>}

ContainsEndOfImage(b) ==
    \E p \in 0..Len(b) : MarkerAt(b, p) = <<255, 217>>

\* A stream with a candidate that the claim has rejected
Unfinished(b) ==
    /\ LastCandidate(b) # -1
    /\ ~FollowedByDefinition(b) \/ ~ContainsEndOfImage(b)

\* C14 as stated: the introspection functions and the verification
\* functions all reject a stream whose last candidate segment is not
\* followed by DHT, DQT, DRI or SOS, or that holds no FF D9.
C14_AllPathsReject ==
    (pc = "jpeg_done" /\ Unfinished(content)) =>
        /\ shape_buffer.exc # ""
        /\ shape_file.exc # ""
        /\ verify_buffer.exc # ""
        /\ verify_file.exc # ""

\* C14 (amended): the verification functions reject such a stream and
\* return no shape for it; the introspection functions make neither test
\* and return the shape of the last candidate whenever its 5 bytes are
\* there.
C14_VerificationRejects ==
    (pc = "jpeg_done" /\ Unfinished(content)) =>
        /\ verify_buffer.exc # ""
        /\ verify_file.exc # ""
        /\ (LastCandidate(content) + 10 <= Len(content)) =>
              /\ shape_buffer.exc = ""
              /\ shape_file.exc = ""

\* C14 witness: a stream that starts with SOI and has its frame header
\* followed by SOS but no end of image: the introspection functions
\* return its shape, the verification functions reject it
C14_Witness ==
    /\ pc = "jpeg_done"
    /\ MarkerAt(content, 0) = StartOfImage
    /\ LastCandidate(content) # -1
    /\ FollowedByDefinition(content)
    /\ ~ContainsEndOfImage(content)
    /\ shape_buffer.exc = "" /\ shape_file.exc = ""
    /\ verify_buffer.exc # "" /\ verify_file.exc # ""

----------------------------------------------------------------------------
(* Properties of the decode loop of _decompress_video *)

\* C15: a decoded frame whose timestamp is at or past the seek target,
\* timestamp 0 with target 0 included, is written to the next slot and
\* the target advances by step_time; a frame whose timestamp is below the
\* target is not written.  (Stated for one frame per packet and a free
\* slot, where the timestamp of the frame is that of its packet.)
C15_WritesAtOrPastTarget ==
    [][(/\ pc = "decode"
        /\ fidx' = fidx + 1
        /\ stream.fpp = 1
        /\ i < nframes) =>
            IF _frame_to_stamp(packet + fidx, stream) >= seek_target
            THEN /\ i' = i + 1
                 /\ video'[i + 1] = packet + fidx
                 /\ seek_target' = seek_target + step_time
            ELSE /\ video' = video
                 /\ i' = i]_vars

\* The call has passed its set-up and issued the initial seek
PastSetUp ==
    \/ pc \in {"demux", "decode", "return"}
    \/ pc = "video_done" /\ vret.exc \in {"", "IndexError"}

\* C16: when step is at most the GOP size the only seek of the call is
\* the initial one, to the timestamp of start; when step exceeds the GOP
\* size and the source can seek, the seeks after the initial one are one
\* per retained frame, each to the target as advanced by that frame.  A
\* call that fails in its set-up has issued no seek.
C16_SeekStrategy ==
    LET first == _frame_to_stamp(Default(start, 0), stream)
        by == Default(step, 1)
    IN  /\ (PastSetUp /\ by <= stream.gop_size) => seeks = <<first>>
        /\ (PastSetUp /\ by > stream.gop_size /\ seekable) =>
              seeks = [k \in 1..(i + 1) |->
                          first + (k - 1) * _frame_to_stamp(by, stream)]
        /\ (pc = "video_done" /\ ~PastSetUp) => seeks = <<>>

\* C16 witness: a call that retained two frames or more with a step beyond
\* the GOP size, on a source that can seek
C16_Witness ==
    /\ pc = "video_done"
    /\ vret.exc = ""
    /\ seekable
    /\ Default(step, 1) > stream.gop_size
    /\ i >= 2
    /\ Len(seeks) = i + 1

\* C17: the number of frames written never exceeds the requested count;
\* once the count is filled no further frame is written and the call
\* returns its frames, for every window (a count of 0 included) and for
\* packets of several frames.
C17_StopsWhenFilled ==
    /\ pc \in {"demux", "decode", "return"} => i <= nframes
    /\ pc = "video_done" => vret.exc # "IndexError"

----------------------------------------------------------------------------
(* The number of arrays the tiler returns *)

\* C19: for every blob that compress_multiple produced from a list of
\* samples, decompress_multiple with the shapes of the samples returns one
\* array per shape, the k-th of shape shapes[k], lists in which every
\* sample has a zero-sized dimension included.
C19_OneArrayPerShape ==
    (pc = "tile_done" /\ buffer.exc = "") =>
        /\ ret.exc = ""
        /\ Len(ret.val) = Len(arrays)
        /\ \A k \in 1..Len(arrays) : ret.val[k].shape = arrays[k].shape

====
